---------------------------- MODULE Spec2Model ----------------------------
(***************************************************************************)
(* Cross-stack references in a CDK application.                            *)
(*                                                                         *)
(* The application (bin/problemStack.ts) builds four stacks: the           *)
(* direct-reference pair UserService / OrderService and the configuration  *)
(* based pair ConfigBasedUserService / ConfigBasedOrderService.  The       *)
(* model follows the entry point statement by statement, synthesises each  *)
(* stack's template the way the narrative                                  *)
(* (cross-stack-references-obsidian.md) describes it (a reference to a     *)
(* resource of another stack becomes an Export in the producer and an      *)
(* Fn::ImportValue in the consumer), and deploys / destroys templates      *)
(* under the platform rule that an export in use by another deployed       *)
(* stack can be neither updated nor deleted.                               *)
(***************************************************************************)
EXTENDS Naturals, FiniteSets, Sequences, TLC

VARIABLES
    pc,         \* number of stack-constructing statements of the entry point already run
    code,       \* the editable parts of the source the narrative changes
    deployed,   \* per stack: what the platform currently holds
    lastResult  \* outcome of the latest deploy / destroy attempt

vars == <<pc, code, deployed, lastResult>>

Stacks == {"UserService", "OrderService",
           "ConfigBasedUserService", "ConfigBasedOrderService"}

DirectStacks == {"UserService", "OrderService"}

ConfigStacks == {"ConfigBasedUserService", "ConfigBasedOrderService"}

\* Number of backup names the table may be renamed to.
MaxBackups == 1

\* "UsersBackup", and further backups numbered from 2.
BackupName(i) ==
    IF i = 1 THEN "UsersBackup" ELSE "UsersBackup" \o ToString(i)

\* Table names the narrative uses: the original one and the backups'.
TableNames == {"Users"} \cup {BackupName(i) : i \in 1..MaxBackups}

NoStack == [kind |-> "none"]

NotDeployed == [kind |-> "notDeployed"]

NoAttempt == [stack |-> "none", op |-> "none", outcome |-> "none"]

-----------------------------------------------------------------------------
(* Constructs *)

\* Faulty variant: the tableName prop is dropped, the platform generates a name.
NewTableV2Unnamed(scope, id, tableName) ==
    [kind |-> "table", scope |-> scope, id |-> id, tableName |-> scope \o "-" \o id,
     partitionKey |-> [name |-> "PK", type |-> "S"]]

\* new TableV2(scope, id, {tableName, partitionKey: {name: "PK", type: STRING}})
NewTableV2(scope, id, tableName) ==
    [kind |-> "table", scope |-> scope, id |-> id, tableName |-> tableName,
     partitionKey |-> [name |-> "PK", type |-> "S"]]

\* Faulty variant: re-resolution hands back the producing stack's own construct.
FromTableAttributesShared(scope, id, tableName) ==
    NewTableV2("ConfigBasedUserService", "UsersTable", tableName)

\* TableV2.fromTableAttributes(scope, id, {tableName, globalIndexes: []})
FromTableAttributes(scope, id, tableName) ==
    [kind |-> "imported", scope |-> scope, id |-> id, tableName |-> tableName,
     globalIndexes |-> {}]

\* Faulty variant: a created table's name is read as the plain string.
TableNameOfLiteral(table) ==
    [kind |-> "literal", value |-> table.tableName]

\* ITableV2.tableName: a created table yields a token referring to the
\* resource, a re-resolved table yields the string it was given.
TableNameOf(table) ==
    IF table.kind = "table"
    THEN [kind |-> "ref", scope |-> table.scope, id |-> table.id]
    ELSE [kind |-> "literal", value |-> table.tableName]

\* new NodejsFunction(scope, "OrderFunction", {entry, environment})
\* followed by table.grantReadData(fn)
NodejsFunction(id, environment, readGrants) ==
    [id |-> id, entry |-> "./lib/lambdas/handler.ts",
     environment |-> environment, readGrants |-> readGrants]

\* Faulty variant: the exportValue call is left out of the producing stack.
UserServiceStackNoExportValue(id, src) ==
    LET usersTable == NewTableV2(id, "UsersTable", src.tableName)
    IN  [kind |-> "stack", id |-> id,
         tables |-> {usersTable},
         public |-> {[attr |-> "usersTable", value |-> usersTable]},
         functions |-> {},
         exportValues |-> {}]

\* class UserServiceStack: one table named by the source, exposed as the
\* public attribute usersTable; exportValue(...) when the dummy export is added.
UserServiceStack(id, src) ==
    LET usersTable == NewTableV2(id, "UsersTable", src.tableName)
    IN  [kind |-> "stack", id |-> id,
         tables |-> {usersTable},
         public |-> {[attr |-> "usersTable", value |-> usersTable]},
         functions |-> {},
         exportValues |-> IF src.exportValue THEN {TableNameOf(usersTable)} ELSE {}]

\* class OrderServiceStack: props.usersTable is a table handle.
OrderServiceStack(id, props, src) ==
    [kind |-> "stack", id |-> id,
     tables |-> {},
     public |-> {},
     functions |->
        {NodejsFunction("OrderFunction",
            IF src.usesTable
            THEN {[name |-> "USER_TABLE", value |-> TableNameOf(props.usersTable)]}
            ELSE {},
            IF src.usesTable THEN {TableNameOf(props.usersTable)} ELSE {})},
     exportValues |-> {}]

\* class ConfigBasedUserServiceStack: props.usersTableName is a string.
ConfigBasedUserServiceStack(id, props) ==
    LET usersTable == NewTableV2(id, "UsersTable", props.usersTableName)
    IN  [kind |-> "stack", id |-> id,
         tables |-> {usersTable},
         public |-> {[attr |-> "usersTable", value |-> usersTable]},
         functions |-> {},
         exportValues |-> {}]

\* class ConfigBasedOrderServiceStack: props.usersTableName is a string.
ConfigBasedOrderServiceStack(id, props) ==
    LET usersTable == FromTableAttributes(id, "ImportedUsersTable", props.usersTableName)
    IN  [kind |-> "stack", id |-> id,
         tables |-> {},
         public |-> {},
         functions |->
            {NodejsFunction("OrderFunction",
                {[name |-> "USER_TABLE_NAME",
                  value |-> [kind |-> "literal", value |-> props.usersTableName]]},
                {TableNameOf(usersTable)})},
         exportValues |-> {}]

\* Reading a public attribute of a stack object.
PublicAttr(stack, attr) ==
    (CHOOSE p \in stack.public : p.attr = attr).value

\* The source as the repository holds it.
OriginalCode ==
    [tableName |-> "Users", exportValue |-> FALSE, usesTable |-> TRUE,
     configTableName |-> "Users"]

\* The definition tree after the first n stack-constructing statements of
\* the entry point have run on source src.
EntryPoint(src, n) ==
    LET userServiceStack == UserServiceStack("UserService", src)
        tableName == src.configTableName
    IN  [s \in Stacks |->
            CASE s = "UserService" /\ n >= 1 -> userServiceStack
              [] s = "OrderService" /\ n >= 2 ->
                    OrderServiceStack("OrderService",
                        [usersTable |-> PublicAttr(userServiceStack, "usersTable")], src)
              [] s = "ConfigBasedUserService" /\ n >= 3 ->
                    ConfigBasedUserServiceStack("ConfigBasedUserService",
                        [usersTableName |-> tableName])
              [] s = "ConfigBasedOrderService" /\ n >= 4 ->
                    ConfigBasedOrderServiceStack("ConfigBasedOrderService",
                        [usersTableName |-> tableName])
              [] OTHER -> NoStack]

App == EntryPoint(code, pc)

Built == pc = 4

-----------------------------------------------------------------------------
(* Synthesis *)

\* Tokens a stack's function definitions use (environment and grants).
TokensUsed(stack) ==
    UNION {{e.value : e \in f.environment} \cup f.readGrants : f \in stack.functions}

\* References of stack s to resources that live in another stack.
CrossRefs(app, s) ==
    IF app[s] = NoStack THEN {}
    ELSE {t \in TokensUsed(app[s]) : t.kind = "ref" /\ t.scope # s}

\* Faulty variant: the dummy export gets a name of its own.
DummyNamedExport(stack, id) ==
    stack \o ":DummyExport" \o id

\* "UserService:ExportsOutputRefUsersTable..."
ExportName(stack, id) ==
    stack \o ":ExportsOutputRef" \o id

\* Stack.exportValue(...): the explicit export carries the name the
\* generated export of the same value has ("matching names").
ExportValueName(stack, id) ==
    ExportName(stack, id)

\* Tokens of stack s that other stacks of the tree refer to.
ReferencedTokens(app, s) ==
    {t \in UNION {CrossRefs(app, o) : o \in Stacks \ {s}} : t.scope = s}

\* A token as it appears in the template of stack s.
Resolve(s, t) ==
    CASE t.kind = "literal" -> t
      [] t.kind = "ref" /\ t.scope = s -> [kind |-> "ref", id |-> t.id]
      [] OTHER -> [kind |-> "importValue", name |-> ExportName(t.scope, t.id)]

\* The template generated for stack s of the definition tree.
Synth(app, s) ==
    LET stack == app[s]
    IN  [kind |-> "template",
         tables |-> {[id |-> t.id, tableName |-> t.tableName] : t \in stack.tables},
         exports |-> {[name |-> ExportName(s, t.id), ref |-> t.id] :
                        t \in ReferencedTokens(app, s)}
                     \cup {[name |-> ExportValueName(s, t.id), ref |-> t.id] :
                        t \in stack.exportValues},
         functions |->
            {[id |-> f.id,
              environment |-> {[name |-> e.name, value |-> Resolve(s, e.value)] :
                                 e \in f.environment},
              readGrants |-> {Resolve(s, g) : g \in f.readGrants}] :
             f \in stack.functions}]

\* Every value a template's functions carry.
TemplateValues(template) ==
    UNION {{e.value : e \in f.environment} \cup f.readGrants : f \in template.functions}

\* The export names a template imports with Fn::ImportValue.
Imports(template) ==
    {v.name : v \in {w \in TemplateValues(template) : w.kind = "importValue"}}

\* The value an export of a template stands for: the referenced table's name.
ExportedValue(template, e) ==
    (CHOOSE t \in template.tables : t.id = e.ref).tableName

\* Exports of a template with their values.
Exports(template) ==
    {[name |-> e.name, value |-> ExportedValue(template, e)] : e \in template.exports}

-----------------------------------------------------------------------------
(* The deployment platform *)

IsDeployed(d, s) == d[s] # NotDeployed

\* All exports of the deployed stacks.
LiveExports(d) ==
    UNION {Exports(d[s].template) : s \in {t \in Stacks : IsDeployed(d, t)}}

\* Deployed stacks other than s that import the export called name.
Importers(d, s, name) ==
    {t \in Stacks \ {s} : IsDeployed(d, t) /\ name \in Imports(d[t].template)}

\* Exports of deployed stack s that another deployed stack imports.
ExportsInUse(d, s) ==
    IF IsDeployed(d, s)
    THEN {e \in Exports(d[s].template) : Importers(d, s, e.name) # {}}
    ELSE {}

\* Faulty variant: the platform only objects when an export's value changes.
BlockedChangeOnly(d, s, new) ==
    \E e \in ExportsInUse(d, s) :
        \E n \in Exports(new) : n.name = e.name /\ n.value # e.value

\* Faulty variant: the platform objects to any export that disappears or changes.
BlockedAlways(d, s, new) ==
    IsDeployed(d, s) /\ \E e \in Exports(d[s].template) : e \notin Exports(new)

\* Faulty variant: the platform only objects when an export disappears.
BlockedRemovalOnly(d, s, new) ==
    \E e \in ExportsInUse(d, s) : e.name \notin {n.name : n \in Exports(new)}

\* "Export ... cannot be updated / deleted as it is in use by ...": replacing
\* the template of s by new would change or remove an export in use.
Blocked(d, s, new) ==
    \E e \in ExportsInUse(d, s) : e \notin Exports(new)

\* An import of the new template that no deployed stack exports.
MissingExport(d, new) ==
    \E n \in Imports(new) : n \notin {e.name : e \in LiveExports(d)}

\* The value a template value has once deployed.
ValueAtDeploy(d, template, v) ==
    CASE v.kind = "literal" -> v.value
      [] v.kind = "ref" -> (CHOOSE t \in template.tables : t.id = v.id).tableName
      [] OTHER -> (CHOOSE e \in LiveExports(d) : e.name = v.name).value

\* What the platform holds for a stack after a successful deployment.
DeployedStack(d, template) ==
    [kind |-> "deployed", template |-> template,
     environment |->
        UNION {{[function |-> f.id, name |-> e.name,
                 value |-> ValueAtDeploy(d, template, e.value)] : e \in f.environment} :
               f \in template.functions}]

EmptyTemplate ==
    [kind |-> "template", tables |-> {}, exports |-> {}, functions |-> {}]

\* cdk deploy s: synthesise the stack and hand the template to the platform.
DeployStack(s) ==
    /\ Built
    /\ LET new == Synth(App, s)
           outcome == IF Blocked(deployed, s, new) THEN "exportInUse"
                      ELSE IF MissingExport(deployed, new) THEN "missingExport"
                      ELSE "ok"
       IN  /\ deployed' = IF outcome = "ok"
                          THEN [deployed EXCEPT ![s] = DeployedStack(deployed, new)]
                          ELSE deployed
           /\ lastResult' = [stack |-> s, op |-> "deploy", outcome |-> outcome]
    /\ UNCHANGED <<pc, code>>

\* cdk destroy s: delete the deployed stack with all its exports.
DestroyStack(s) ==
    /\ Built
    /\ IsDeployed(deployed, s)
    /\ LET outcome == IF Blocked(deployed, s, EmptyTemplate) THEN "exportInUse" ELSE "ok"
       IN  /\ deployed' = IF outcome = "ok"
                          THEN [deployed EXCEPT ![s] = NotDeployed]
                          ELSE deployed
           /\ lastResult' = [stack |-> s, op |-> "destroy", outcome |-> outcome]
    /\ UNCHANGED <<pc, code>>

-----------------------------------------------------------------------------
(* Steps *)

Init ==
    /\ pc = 0
    /\ code = OriginalCode
    /\ deployed = [s \in Stacks |-> NotDeployed]
    /\ lastResult = NoAttempt

\* One stack-constructing statement of the entry point.
Construct ==
    /\ pc < 4
    /\ pc' = pc + 1
    /\ UNCHANGED <<code, deployed, lastResult>>

\* tableName: 'UsersBackup' // Changed from 'Users'
SetTableName ==
    /\ Built
    /\ \E n \in TableNames \ {code.tableName} :
            code' = [code EXCEPT !.tableName = n]
    /\ UNCHANGED <<pc, deployed, lastResult>>

\* this.exportValue(this.usersTable)
AddDummyExport ==
    /\ Built
    /\ ~code.exportValue
    /\ code' = [code EXCEPT !.exportValue = TRUE]
    /\ UNCHANGED <<pc, deployed, lastResult>>

\* "Dummy export removed"
RemoveDummyExport ==
    /\ Built
    /\ code.exportValue
    /\ code' = [code EXCEPT !.exportValue = FALSE]
    /\ UNCHANGED <<pc, deployed, lastResult>>

\* "Remove this: USER_TABLE: ..., props.usersTable.grantReadData(readUser)"
RemoveReference ==
    /\ Built
    /\ code.usesTable
    /\ code' = [code EXCEPT !.usesTable = FALSE]
    /\ UNCHANGED <<pc, deployed, lastResult>>

\* const tableName = "..." of the configuration-based wiring
SetConfigTableName ==
    /\ Built
    /\ \E n \in TableNames \ {code.configTableName} :
            code' = [code EXCEPT !.configTableName = n]
    /\ UNCHANGED <<pc, deployed, lastResult>>

Deploy == \E s \in Stacks : DeployStack(s)

Destroy == \E s \in Stacks : DestroyStack(s)

Next ==
    \/ Construct
    \/ SetTableName
    \/ AddDummyExport
    \/ RemoveDummyExport
    \/ RemoveReference
    \/ SetConfigTableName
    \/ Deploy
    \/ Destroy

Spec == Init /\ [][Next]_vars

-----------------------------------------------------------------------------
(* The narrative's procedures on the direct-reference pair *)

ProducerExports(d) ==
    IF IsDeployed(d, "UserService") THEN Exports(d["UserService"].template) ELSE {}

ConsumerImports(d) ==
    IF IsDeployed(d, "OrderService") THEN Imports(d["OrderService"].template) ELSE {}

\* The consumer's deployed artifact imports an export of the producer's.
Coupled ==
    \E e \in ProducerExports(deployed) : e.name \in ConsumerImports(deployed)

\* State A: the pair is deployed from the source as the repository holds it.
StateA ==
    /\ Built
    /\ code.tableName = "Users" /\ ~code.exportValue /\ code.usesTable
    /\ \A s \in DirectStacks :
            IsDeployed(deployed, s) /\ deployed[s].template = Synth(App, s)

\* Source after phase 1: dummy export added, reference removed.
Phase1Code == code.exportValue /\ ~code.usesTable

\* Source with the reference removed and no dummy export.
DecoupledCode == ~code.exportValue /\ ~code.usesTable

\* First deployment of the pair, from the unchanged source.
InitialDeploy ==
    \E s \in DirectStacks :
        /\ code.usesTable /\ ~code.exportValue
        /\ ~IsDeployed(deployed, s)
        /\ DeployStack(s)

\* Phase 1, the edit: producer adds the dummy export, consumer drops the reference.
Phase1Edit ==
    /\ StateA
    /\ code' = [code EXCEPT !.exportValue = TRUE, !.usesTable = FALSE]
    /\ UNCHANGED <<pc, deployed, lastResult>>

\* Phase 1, step 3: "Deploy both stacks", in whichever order.
Phase1Deploy ==
    \E s \in DirectStacks : Phase1Code /\ DeployStack(s)

\* Phase 2, the edit: "After the consuming stack successfully deploys
\* without the import", the dummy export is removed.
Phase2Edit ==
    /\ Built
    /\ Phase1Code
    /\ IsDeployed(deployed, "OrderService")
    /\ deployed["OrderService"].template = Synth(App, "OrderService")
    /\ code' = [code EXCEPT !.exportValue = FALSE]
    /\ UNCHANGED <<pc, deployed, lastResult>>

\* Phase 2: the producer is deployed alone.
Phase2Deploy ==
    /\ DecoupledCode
    /\ DeployStack("UserService")

\* The configuration-based pair is independent of the procedure.
ConfigPairStep ==
    \/ SetConfigTableName
    \/ \E s \in ConfigStacks : DeployStack(s)
    \/ \E s \in ConfigStacks : DestroyStack(s)

NextTwoPhase ==
    \/ Construct
    \/ InitialDeploy
    \/ Phase1Edit
    \/ Phase1Deploy
    \/ Phase2Edit
    \/ Phase2Deploy
    \/ ConfigPairStep

SpecTwoPhase == Init /\ [][NextTwoPhase]_vars

\* The recap: the reference is removed from the code, no dummy export is added.
NaiveEdit ==
    /\ StateA
    /\ code' = [code EXCEPT !.usesTable = FALSE]
    /\ UNCHANGED <<pc, deployed, lastResult>>

\* Either stack of the pair is deployed from the changed source.
NaiveDeploy ==
    \E s \in DirectStacks : DecoupledCode /\ DeployStack(s)

NextNaive ==
    \/ Construct
    \/ InitialDeploy
    \/ NaiveEdit
    \/ NaiveDeploy
    \/ ConfigPairStep

SpecNaive == Init /\ [][NextNaive]_vars

-----------------------------------------------------------------------------
(* Properties *)

\* The direct-reference pair's source is as the repository holds it.
DirectAsWritten ==
    Built /\ code.tableName = "Users" /\ ~code.exportValue /\ code.usesTable

\* The configuration-based pair is wired with the name "Users".
ConfigAsWritten ==
    Built /\ code.configTableName = "Users"

\* Stack s is deployed from the current source.
UpToDate(s) ==
    IsDeployed(deployed, s) /\ deployed[s].template = Synth(App, s)

\* Deploying template new for the producer removes an export the consumer
\* imports, or changes its value.
RemovesOrChangesImported(new) ==
    \E e \in ProducerExports(deployed) :
        /\ e.name \in ConsumerImports(deployed)
        /\ \/ e.name \notin {n.name : n \in Exports(new)}
           \/ \E n \in Exports(new) : n.name = e.name /\ n.value # e.value

\* C1: while the consumer's deployed artifact imports the producer's export,
\* a producer deployment that removes the export or changes its value, and a
\* deletion of the producing stack, is rejected as export-in-use and leaves
\* every deployed artifact as it was.
C1_ExportInUseRejected ==
    [][ (/\ Coupled
         /\ \/ DeployStack("UserService")
                 /\ RemovesOrChangesImported(Synth(App, "UserService"))
            \/ DestroyStack("UserService"))
        => (/\ deployed' = deployed
            /\ lastResult'.stack = "UserService"
            /\ lastResult'.outcome = "exportInUse") ]_vars

\* C1 witness: the table was renamed to "UsersBackup" in the source and the
\* producer's deployment was rejected while the consumer still imports.
C1_Witness ==
    /\ Coupled
    /\ code.tableName = "UsersBackup"
    /\ lastResult = [stack |-> "UserService", op |-> "deploy", outcome |-> "exportInUse"]
    /\ \E e \in ProducerExports(deployed) : e.value = "Users"

\* C4: the configuration-based consumer's artifact, generated or deployed,
\* imports nothing, the configuration-based producer exports nothing, and no
\* deployment or deletion of either stack is rejected as export-in-use.
C4_ConfigPairIndependent ==
    /\ Built =>
          /\ Imports(Synth(App, "ConfigBasedOrderService")) = {}
          /\ Synth(App, "ConfigBasedUserService").exports = {}
    /\ IsDeployed(deployed, "ConfigBasedOrderService") =>
          Imports(deployed["ConfigBasedOrderService"].template) = {}
    /\ lastResult.stack \in ConfigStacks => lastResult.outcome # "exportInUse"

\* C4 witness: the configured name was modified and the producing stack was
\* deleted while the consuming stack, deployed with "Users", stays deployed.
C4_Witness ==
    /\ IsDeployed(deployed, "ConfigBasedOrderService")
    /\ \E v \in deployed["ConfigBasedOrderService"].environment : v.value = "Users"
    /\ ~IsDeployed(deployed, "ConfigBasedUserService")
    /\ code.configTableName = "UsersBackup"
    /\ lastResult = [stack |-> "ConfigBasedUserService", op |-> "destroy", outcome |-> "ok"]

\* C5: for the direct-reference pair as written, the consumer's generated
\* artifact imports exactly the one export the producer's artifact declares,
\* which refers to the table; and once the consumer is deployed from that
\* source every import of it names an export the deployed producer declares.
C5_ImportsExactlyTheExport ==
    DirectAsWritten =>
        LET consumer == Synth(App, "OrderService")
            producer == Synth(App, "UserService")
        IN  /\ Imports(consumer) = {e.name : e \in producer.exports}
            /\ producer.exports =
                  {[name |-> ExportName("UserService", "UsersTable"), ref |-> "UsersTable"]}
            /\ UpToDate("OrderService") =>
                  /\ ConsumerImports(deployed) # {}
                  /\ ConsumerImports(deployed) = {e.name : e \in ProducerExports(deployed)}

\* C5 witness: the consumer is deployed from the source as written.
C5_Witness ==
    DirectAsWritten /\ UpToDate("OrderService") /\ UpToDate("UserService")

\* C6: for either pair as wired by the entry point and deployed, the
\* function's environment holds a variable whose value is "Users".
C6_EnvironmentNamesUsers ==
    /\ (DirectAsWritten /\ UpToDate("UserService") /\ UpToDate("OrderService")) =>
          \E v \in deployed["OrderService"].environment :
              v.function = "OrderFunction" /\ v.value = "Users"
    /\ (ConfigAsWritten /\ UpToDate("ConfigBasedUserService")
                        /\ UpToDate("ConfigBasedOrderService")) =>
          \E v \in deployed["ConfigBasedOrderService"].environment :
              v.function = "OrderFunction" /\ v.value = "Users"

\* C6 witness: both pairs are deployed from the source as written.
C6_Witness ==
    /\ code = OriginalCode
    /\ \A s \in Stacks : UpToDate(s)

\* Table names a stack definition creates.
DefinedTableNames(stack) ==
    IF stack = NoStack THEN {} ELSE {t.tableName : t \in stack.tables}

\* C7: no two stacks of the definition tree built by the entry point define
\* a table with the same name.
C7_OneProducerPerName ==
    code = OriginalCode =>
        \A s, t \in Stacks :
            s # t => DefinedTableNames(App[s]) \cap DefinedTableNames(App[t]) = {}

\* C9: the configuration-based producing stack takes the table name from
\* its props and has no public attribute holding a table handle.
C9_NoHandleExposed ==
    App["ConfigBasedUserService"] # NoStack =>
        /\ DefinedTableNames(App["ConfigBasedUserService"]) = {code.configTableName}
        /\ App["ConfigBasedUserService"].public = {}

-----------------------------------------------------------------------------
(* Properties of the decoupling procedures *)

\* Exports of the deployed producer whose value is the table name v.
ProducerExportsOf(v) ==
    {e \in ProducerExports(deployed) : e.value = v}

\* State B: both stacks are deployed from the phase 1 source.
StateB ==
    Built /\ Phase1Code /\ UpToDate("UserService") /\ UpToDate("OrderService")

\* State C: both stacks are deployed from the source without reference and
\* without dummy export.
StateC ==
    Built /\ DecoupledCode /\ UpToDate("UserService") /\ UpToDate("OrderService")

\* No export of either stack of the pair is imported by the other.
NoRelationship ==
    /\ \A s \in DirectStacks : IsDeployed(deployed, s)
    /\ \A s \in DirectStacks : ExportsInUse(deployed, s) = {}
    /\ \A s \in DirectStacks : Imports(deployed[s].template) = {}

\* C2: following the two-phase procedure from state A, no deployment is ever
\* rejected as export-in-use, and the producer's phase 2 deployment leaves
\* the pair in state C with no export/import relationship.
C2_TwoPhaseNeverRejected ==
    /\ [](lastResult.outcome # "exportInUse")
    /\ [][Phase2Deploy => (StateC' /\ NoRelationship')]_vars

\* C2 witness: phase 2 is complete; the producer's last deployment was
\* accepted and the pair is in state C.
C2_Witness ==
    /\ StateC
    /\ NoRelationship
    /\ lastResult = [stack |-> "UserService", op |-> "deploy", outcome |-> "ok"]

=============================================================================
